---------------------------- MODULE Spec2Model ----------------------------
(***************************************************************************)
(* Especulai: the prediction form (usePrediction, normalizePredictionPayload,*)
(* apiFetch), the training scripts as the guides describe them             *)
(* (train_model.py, train_model_olx.py) and the inference service that     *)
(* consumes the exported artifacts.                                        *)
(*                                                                         *)
(* Strings are sequences of one-character strings, so that the string      *)
(* functions (toLowerCase, split, parseFloat, parseInt) are computed and   *)
(* not assumed.  Numbers are held in hundredths (the area input has        *)
(* step="0.01"), as records [k |-> "num", v |-> hundredths], with NaN and  *)
(* JSON null as records of the same shape.                                 *)
(***************************************************************************)
EXTENDS Integers, Sequences, FiniteSets, TLC

VARIABLES
    \* ---- usePrediction (React state) and its requests in flight
    impl,        \* which frontend is running: "api" (hook + apiFetch) or "legacy"
    formData, prediction, loading, error,
    inflight,    \* sequence of the forms captured by handleSubmit calls not yet settled
    lastReq,     \* history: how the latest request ended (Null until it settles)
    shown,       \* history: <<cause, error shown>> of every failed request
    cleared,     \* history: reset() was called and handleSubmit not yet again
    \* ---- training scripts and the artifact directory
    rows,        \* enriched_economic.csv after filtering
    segments,    \* dados_imoveis_teresina/segmentos/dataset_*.csv
    aluguelFile, \* dados_imoveis_teresina/dataset_aluguel.csv
    modelFile,   \* ml/artifacts/modelo_definitivo.joblib   (MODEL_PATH)
    preprocFile, \* ml/artifacts/preprocessador.joblib      (PREPROCESSOR_PATH)
    pc, work, runs, prevPair,
    exported,    \* history: every artifact an export finished writing
    \* ---- inference service
    lastScore,   \* history: the last /predict call handled and the pair it read
    health,
    \* ---- the frontend's pure functions
    call,        \* the last application: [fn, arg, result]
    \* ---- the landing page's widgets
    accordion,      \* the Accordion: its props type and collapsible, its state value
    lastClick,      \* history: the trigger clicked last and the value before the click
    mobileMenuOpen  \* useMobileMenu

hookVars  == <<impl, formData, prediction, loading, error, inflight, lastReq, shown, cleared>>
trainVars == <<rows, segments, aluguelFile, pc, work, runs, prevPair, exported>>
diskVars  == <<modelFile, preprocFile>>
apiVars   == <<lastScore, health>>
utilVars  == <<call>>
uiVars    == <<accordion, lastClick, mobileMenuOpen>>
vars      == <<hookVars, trainVars, diskVars, apiVars, utilVars, uiVars>>

Null == [null |-> TRUE]

-----------------------------------------------------------------------------
(* Characters and strings                                                  *)

Digits == <<"0", "1", "2", "3", "4", "5", "6", "7", "8", "9">>

IsDigit(c) == \E i \in 1..Len(Digits) : Digits[i] = c

DigitVal(c) == (CHOOSE i \in 1..Len(Digits) : Digits[i] = c) - 1

\* String.prototype.trim / the parsers' StrWhiteSpaceChar
IsWhiteSpace(c) == c \in {" ", "\t", "\n"}

LowerPairs == { <<"A", "a">>, <<"C", "c">>, <<"D", "d">>, <<"E", "e">>,
                <<"S", "s">>, <<"P", "p">>, <<"U", "u">>, <<"L", "l">> }

toLowerCaseChar(c) ==
    IF \E p \in LowerPairs : p[1] = c
    THEN (CHOOSE p \in LowerPairs : p[1] = c)[2]
    ELSE c

toUpperCaseChar(c) ==
    IF \E p \in LowerPairs : p[2] = c
    THEN (CHOOSE p \in LowerPairs : p[2] = c)[1]
    ELSE c

toLowerCase(s) == [i \in 1..Len(s) |-> toLowerCaseChar(s[i])]

RECURSIVE SkipWhiteSpace(_)
SkipWhiteSpace(s) ==
    IF s # <<>> /\ IsWhiteSpace(Head(s)) THEN SkipWhiteSpace(Tail(s)) ELSE s

RECURSIVE DigitPrefix(_)
\* the longest prefix of s made of decimal digits
DigitPrefix(s) ==
    IF s # <<>> /\ IsDigit(Head(s)) THEN <<Head(s)>> \o DigitPrefix(Tail(s)) ELSE <<>>

RECURSIVE DigitsValue(_, _)
DigitsValue(ds, acc) ==
    IF ds = <<>> THEN acc ELSE DigitsValue(Tail(ds), acc * 10 + DigitVal(Head(ds)))

Drop(s, n) == SubSeq(s, n + 1, Len(s))

-----------------------------------------------------------------------------
(* Numbers                                                                 *)

NaN      == [k |-> "nan", v |-> 0]
JsonNull == [k |-> "null", v |-> 0]
Num(hundredths) == [k |-> "num", v |-> hundredths]

\* a Number of 1e21 or more: its first digit, signed.  Number::toString writes
\* such a value in exponent notation ("1e+21"), and the value itself is out of
\* the range the hundredths are computed in
Big(lead) == [k |-> "big", v |-> lead]

Signed(neg, n) == IF neg THEN 0 - n ELSE n

RECURSIVE StripZeros(_)
StripZeros(ds) ==
    IF ds # <<>> /\ Head(ds) = "0" THEN StripZeros(Tail(ds)) ELSE ds

RECURSIVE Pow10(_)
Pow10(n) == IF n = 0 THEN 1 ELSE 10 * Pow10(n - 1)

\* global parseInt(string) with radix 10: leading white space, a sign, digits;
\* NaN when no digit follows.
parseInt(s) ==
    LET t    == SkipWhiteSpace(s)
        neg  == t # <<>> /\ Head(t) = "-"
        u    == IF t # <<>> /\ Head(t) \in {"-", "+"} THEN Tail(t) ELSE t
        ds   == DigitPrefix(u)
        sig  == StripZeros(ds)
    IN  IF ds = <<>> THEN NaN
        ELSE IF Len(sig) >= 22 THEN Big(Signed(neg, DigitVal(Head(sig))))
        ELSE Num(Signed(neg, DigitsValue(ds, 0)) * 100)

\* global parseFloat(string): leading white space, a sign, digits, an optional
\* fraction, an optional exponent; NaN when neither the integer part nor the
\* fraction has a digit.  Two fraction digits are kept.
parseFloat(s) ==
    LET t    == SkipWhiteSpace(s)
        neg  == t # <<>> /\ Head(t) = "-"
        u    == IF t # <<>> /\ Head(t) \in {"-", "+"} THEN Tail(t) ELSE t
        ip   == DigitPrefix(u)
        r    == Drop(u, Len(ip))
        dot  == r # <<>> /\ Head(r) = "."
        fp   == IF dot THEN DigitPrefix(Tail(r)) ELSE <<>>
        f2   == SubSeq(fp \o <<"0", "0">>, 1, 2)
        r2   == IF dot THEN Drop(r, Len(fp) + 1) ELSE r
        x    == IF r2 # <<>> /\ Head(r2) \in {"e", "E"} THEN Tail(r2) ELSE <<>>
        xneg == x # <<>> /\ Head(x) = "-"
        xd   == DigitPrefix(IF x # <<>> /\ Head(x) \in {"-", "+"} THEN Tail(x) ELSE x)
        exp  == DigitsValue(xd, 0)
        sig  == StripZeros(ip \o fp)
        m    == DigitsValue(ip, 0) * 100 + DigitsValue(f2, 0)
    IN  IF ip = <<>> /\ fp = <<>> THEN NaN
        ELSE IF sig = <<>> THEN Num(0)
        ELSE IF Len(sig) - Len(fp) + (IF xneg THEN 0 - exp ELSE exp) >= 22
        THEN Big(Signed(neg, DigitVal(Head(sig))))
        ELSE IF xneg THEN Num(Signed(neg, m \div Pow10(exp)))
        ELSE Num(Signed(neg, m * Pow10(exp)))

\* Number.isFinite
isFinite(n) == n.k \in {"num", "big"}

RECURSIVE NatToString(_)
NatToString(n) ==
    IF n < 10 THEN <<Digits[n + 1]>>
    ELSE NatToString(n \div 10) \o <<Digits[(n % 10) + 1]>>

\* the decimals of h hundredths, none when h = 0, no trailing zero
Decimals(sep, h) ==
    IF h = 0 THEN <<>>
    ELSE IF h % 10 = 0 THEN <<sep, Digits[(h \div 10) + 1]>>
    ELSE <<sep, Digits[(h \div 10) + 1], Digits[(h % 10) + 1]>>

numberToString_Locale(n) ==
    LET a == IF n.v < 0 THEN 0 - n.v ELSE n.v
    IN  (IF n.v < 0 THEN <<"-">> ELSE <<>>)
            \o NatToString(a \div 100) \o Decimals(",", a % 100)

\* ToString of a Number, which parseFloat and parseInt apply to an argument
\* that is not a string
numberToString(n) ==
    LET a == IF n.v < 0 THEN 0 - n.v ELSE n.v
    IN  IF n.k = "nan" THEN <<"N", "a", "N">>
        ELSE IF n.k = "null" THEN <<"n", "u", "l", "l">>
        ELSE IF n.k = "big"
        THEN (IF n.v < 0 THEN <<"-">> ELSE <<>>) \o <<Digits[a + 1], "e", "+", "2", "1">>
        ELSE (IF n.v < 0 THEN <<"-">> ELSE <<>>)
                 \o NatToString(a \div 100) \o Decimals(".", a % 100)

\* const toNumber = (value, parser = parseFloat) => ...
toNumberFloat(value) ==
    LET num == parseFloat(value) IN IF isFinite(num) THEN num ELSE Num(0)

toNumberInt(value) ==
    LET num == parseInt(value) IN IF isFinite(num) THEN num ELSE Num(0)

\* JSON.stringify of a number: NaN is serialized as null
jsonNumber(n) == IF isFinite(n) THEN n ELSE JsonNull

-----------------------------------------------------------------------------
(* titleCase and normalizePredictionPayload                                *)

TITLE_CASE_EXCEPTIONS ==
    { <<"d", "o">>, <<"d", "a">>, <<"d", "o", "s">>, <<"d", "a", "s">>, <<"d", "e">> }

RECURSIVE split(_, _)
\* String.prototype.split(' '): the pieces between single spaces, empty ones kept;
\* cur is the piece being read
split(s, cur) ==
    IF s = <<>> THEN <<cur>>
    ELSE IF Head(s) = " " THEN <<cur>> \o split(Tail(s), <<>>)
    ELSE split(Tail(s), Append(cur, Head(s)))

\* .filter(Boolean) on an array of strings
filterBoolean(ws) == SelectSeq(ws, LAMBDA w : w # <<>>)

RECURSIVE join(_)
\* Array.prototype.join(' ')
join(ws) ==
    IF ws = <<>> THEN <<>>
    ELSE IF Len(ws) = 1 THEN ws[1]
    ELSE ws[1] \o <<" ">> \o join(Tail(ws))

titleCaseWord_EveryPosition(word, index) ==
    IF word \in TITLE_CASE_EXCEPTIONS THEN word
    ELSE <<toUpperCaseChar(word[1])>> \o Tail(word)

titleCaseWord(word, index) ==
    IF index # 0 /\ word \in TITLE_CASE_EXCEPTIONS THEN word
    ELSE <<toUpperCaseChar(word[1])>> \o Tail(word)

titleCase(value) ==
    LET ws == filterBoolean(split(toLowerCase(value), <<>>))
    IN  join([i \in 1..Len(ws) |-> titleCaseWord(ws[i], i - 1)])

apartamento == <<"a", "p", "a", "r", "t", "a", "m", "e", "n", "t", "o">>

normalizePredictionPayload(fd) ==
    [ area      |-> toNumberFloat(fd.area),
      quartos   |-> toNumberInt(fd.quartos),
      banheiros |-> toNumberInt(fd.banheiros),
      tipo      |-> toLowerCase(IF fd.tipo # <<>> THEN fd.tipo ELSE apartamento),
      bairro    |-> titleCase(fd.bairro),
      cidade    |-> titleCase(fd.cidade) ]

\* the body the legacy handleSubmit builds inline
legacyPayload(fd) ==
    [ area      |-> jsonNumber(parseFloat(fd.area)),
      quartos   |-> jsonNumber(parseInt(fd.quartos)),
      banheiros |-> jsonNumber(parseInt(fd.banheiros)),
      tipo      |-> fd.tipo,
      bairro    |-> fd.bairro,
      cidade    |-> fd.cidade ]

-----------------------------------------------------------------------------
(* Listings, datasets and artifacts                                        *)

Sul  == <<"S", "u", "l">>
Les  == <<"L", "e", "s">>
casa == <<"c", "a", "s", "a">>
Sp   == <<"S", "p">>

Row(id, fonte, negocio, bairro) ==
    [ id |-> id, fonte |-> fonte, tipo_negocio |-> negocio,
      tipo |-> casa, bairro |-> bairro, cidade |-> Sp ]

\* the listings a collection may hold: each source with a sale and a rental
AllRows ==
    { Row(1, "olx", "Venda", Sul),        Row(2, "olx", "Aluguel", Les),
      Row(3, "rocharocha", "Venda", Les), Row(4, "rocharocha", "Aluguel", Sul) }

Fontes == {"olx", "rocharocha"}

IsArtifact(f) == "run" \in DOMAIN f

\* a file being rewritten in place: neither the old content nor the new
Partial == [partial |-> TRUE]

\* step 5 of train_model.py: the categories of the training rows, frozen
FitPreprocessor(run, training) ==
    [ run   |-> run,
      vocab |-> [ tipo   |-> {r.tipo : r \in training},
                  bairro |-> {r.bairro : r \in training},
                  cidade |-> {r.cidade : r \in training} ] ]

\* step 6 of train_model.py: the regressor fitted on the encoded training rows
FitModel(run, script, training) ==
    [ run |-> run, script |-> script, trainedOn |-> training,
      confianca |-> IF Cardinality(training) >= 2 THEN "alta" ELSE "media" ]

-----------------------------------------------------------------------------
(* Inference service (POST /predict, GET /health)                          *)

HasText(s) == \E i \in 1..Len(s) : ~IsWhiteSpace(s[i])

IsCount(n) == n.k = "num" /\ n.v >= 0 /\ n.v % 100 = 0

ValidPayload(p) ==
    /\ p.area.k = "num" /\ p.area.v > 0
    /\ IsCount(p.quartos)
    /\ IsCount(p.banheiros)
    /\ HasText(p.tipo)
    /\ HasText(p.bairro)
    /\ HasText(p.cidade)

IntegrityOk_PresenceOnly(m, pp) == IsArtifact(m) /\ IsArtifact(pp)

IntegrityOk(m, pp) == IsArtifact(m) /\ IsArtifact(pp) /\ m.run = pp.run

\* the artifacts are available when both load and belong together
ArtifactsAvailable(m, pp) == IntegrityOk(m, pp)

HealthStatus(m, pp) == IF ArtifactsAvailable(m, pp) THEN "ok" ELSE "degraded"

OneHot(vocab, value) == [c \in vocab |-> IF c = value THEN 1 ELSE 0]

Transform_RaiseOnUnknown(pp, p) ==
    [ ok     |-> p.tipo \in pp.vocab.tipo /\ p.bairro \in pp.vocab.bairro
                 /\ p.cidade \in pp.vocab.cidade,
      tipo   |-> OneHot(pp.vocab.tipo, p.tipo),
      bairro |-> OneHot(pp.vocab.bairro, p.bairro),
      cidade |-> OneHot(pp.vocab.cidade, p.cidade),
      vocab  |-> pp.vocab ]

\* the frozen one-hot encoding: a category outside the vocabulary is the all-zero row
Transform(pp, p) ==
    [ ok     |-> TRUE,
      tipo   |-> OneHot(pp.vocab.tipo, p.tipo),
      bairro |-> OneHot(pp.vocab.bairro, p.bairro),
      cidade |-> OneHot(pp.vocab.cidade, p.cidade),
      vocab  |-> pp.vocab ]

Ones(row) == Cardinality({c \in DOMAIN row : row[c] = 1})

\* a point estimate from the encoded features (in reais)
Score(m, p, x) ==
    (p.area.v \div 100) * (1000 + 100 * (Ones(x.tipo) + Ones(x.bairro) + Ones(x.cidade)))
    + 10000 * Cardinality(m.trainedOn)

JsonResponse(status, json) == [status |-> status, text |-> "json", json |-> json]

\* received -> validated -> transformed -> scored -> responded, or rejected
predictService(p, m, pp) ==
    IF ~ValidPayload(p)
    THEN JsonResponse(422, [detail |-> "Requisicao invalida"])
    ELSE IF ~IntegrityOk(m, pp)
    THEN JsonResponse(503, [detail |-> "Modelo indisponivel"])
    ELSE LET x == Transform(pp, p)
         IN  IF ~x.ok
             THEN JsonResponse(500, [detail |-> "Erro interno"])
             ELSE JsonResponse(200, [preco_estimado |-> Score(m, p, x),
                                     confianca |-> m.confianca])

-----------------------------------------------------------------------------
(* Frontend: apiFetch and usePrediction                                    *)

MaxInFlight == 2

Fields == {"area", "quartos", "banheiros", "tipo", "bairro", "cidade"}

\* what a user may type into each field
FieldInputs ==
    [ area      |-> { <<>>, <<"-", "1">>, <<"8", "5">> },
      quartos   |-> { <<>>, <<"3">> },
      banheiros |-> { <<>>, <<"2">> },
      tipo      |-> { <<>>, <<"C", "a", "s", "a">> },
      bairro    |-> { <<>>, <<"s", "u", "l">> },
      cidade    |-> { <<>>, <<"S", "P">> } ]

createDefaultForm ==
    [ area |-> <<>>, quartos |-> <<>>, banheiros |-> <<>>,
      tipo |-> <<>>, bairro |-> <<>>, cidade |-> <<>> ]

ok(response) == response.status >= 200 /\ response.status <= 299

\* async function parseJSON(response): null for an empty or unparsable body
parseJSON(response) == IF response.text = "json" THEN response.json ELSE Null

\* payload?.detail || payload?.message || 'Erro ao comunicar com o servidor'
apiErrorMessage(payload) ==
    IF "detail" \in DOMAIN payload /\ payload.detail # "" THEN payload.detail
    ELSE IF "message" \in DOMAIN payload /\ payload.message # "" THEN payload.message
    ELSE "Erro ao comunicar com o servidor"

\* apiFetch after the response arrived: what it returns or throws
apiFetch(response) ==
    LET payload == parseJSON(response)
    IN  IF ~ok(response)
        THEN [threw |-> TRUE, message |-> apiErrorMessage(payload), value |-> Null]
        ELSE [threw |-> FALSE, message |-> "", value |-> payload]

\* the legacy handleSubmit after the response arrived: res.ok, then res.json()
legacyFetch(response) ==
    IF ~ok(response)
    THEN [threw |-> TRUE, message |-> "Erro ao obter predicao", value |-> Null]
    ELSE IF response.text # "json"
    THEN [threw |-> TRUE, message |-> "Unexpected end of JSON input", value |-> Null]
    ELSE [threw |-> FALSE, message |-> "", value |-> response.json]

\* setError(err.message || 'Nao foi possivel obter a predicao')
catchMessage(message) ==
    IF message # "" THEN message ELSE "Nao foi possivel obter a predicao"

requestBody(fd) ==
    IF impl = "api" THEN normalizePredictionPayload(fd) ELSE legacyPayload(fd)

Cause(response) ==
    IF response.status = 422 THEN "bad_request"
    ELSE IF response.status = 503 THEN "model_unavailable"
    ELSE "other"

handleChange_ClearsPrediction(name, value) ==
    /\ formData' = [formData EXCEPT ![name] = value]
    /\ prediction' = Null
    /\ UNCHANGED <<impl, loading, error, inflight, lastReq, shown, cleared>>
    /\ UNCHANGED <<trainVars, diskVars, apiVars, utilVars, uiVars>>

\* setFormData((prev) => ({ ...prev, [name]: value }))
handleChange(name, value) ==
    /\ formData' = [formData EXCEPT ![name] = value]
    /\ UNCHANGED <<impl, prediction, loading, error, inflight, lastReq, shown, cleared>>
    /\ UNCHANGED <<trainVars, diskVars, apiVars, utilVars, uiVars>>

\* handleSubmit up to its await: the state is cleared and the request leaves with
\* the form as it is now; pending bounds the requests that may be in flight at once
handleSubmit(pending) ==
    /\ Len(inflight) < pending
    /\ loading' = TRUE
    /\ error' = Null
    /\ prediction' = Null
    /\ inflight' = Append(inflight, formData)
    /\ lastReq' = Null
    /\ cleared' = FALSE
    /\ UNCHANGED <<impl, formData, shown>>
    /\ UNCHANGED <<trainVars, diskVars, apiVars, utilVars, uiVars>>

RemoveAt(q, i) == SubSeq(q, 1, i - 1) \o SubSeq(q, i + 1, Len(q))

\* what may answer in place of the service (a proxy, another server at the URL):
\* a 2xx with an empty body, a 2xx with a body that is not JSON, an error page
OtherResponses ==
    { [status |-> 200, text |-> "", json |-> Null],
      [status |-> 200, text |-> "html", json |-> Null],
      [status |-> 502, text |-> "html", json |-> Null] }

\* what the service answers to request i
ServiceResponses(i) ==
    IF i \in 1..Len(inflight)
    THEN {predictService(requestBody(inflight[i]), modelFile, preprocFile)}
    ELSE {}

\* history: what the most recently submitted request ended with, Null while it is
\* pending.  handleSubmit appends, so that request is the last of inflight until
\* it settles; result is what request i, settling now, sets on its own
NewestResult(i, result) ==
    IF lastReq # Null /\ lastReq.newest # Null THEN lastReq.newest
    ELSE IF i = Len(inflight) THEN result
    ELSE Null

\* the rest of handleSubmit, run when the response of request i arrives
handleSubmitSettle(i, others) ==
    /\ i \in 1..Len(inflight)
    /\ \E response \in ServiceResponses(i) \cup others :
       LET fd       == inflight[i]
           got      == IF impl = "api" THEN apiFetch(response) ELSE legacyFetch(response)
       IN  /\ IF got.threw
              THEN /\ error' = [message |-> catchMessage(got.message)]
                   /\ UNCHANGED prediction
                   /\ shown' = shown \cup {<<Cause(response), catchMessage(got.message)>>}
              ELSE /\ prediction' = got.value
                   /\ UNCHANGED <<error, shown>>
           /\ lastReq' = [ form    |-> fd,
                           outcome |-> IF got.threw THEN "rejected"
                                       ELSE IF got.value = Null THEN "empty"
                                       ELSE "responded",
                           cause   |-> IF got.threw THEN Cause(response) ELSE "none",
                           newest  |-> NewestResult(i,
                                          IF got.threw
                                          THEN [ prediction |-> Null,
                                                 error |-> [message |-> catchMessage(got.message)] ]
                                          ELSE [prediction |-> got.value, error |-> Null]) ]
    /\ loading' = FALSE
    /\ inflight' = RemoveAt(inflight, i)
    /\ UNCHANGED <<impl, formData, cleared>>
    /\ UNCHANGED <<trainVars, diskVars, apiVars, utilVars, uiVars>>

\* fetch itself rejects (no connection): the catch branch with the TypeError's message
handleSubmitNetworkError(i) ==
    /\ i \in 1..Len(inflight)
    /\ error' = [message |-> catchMessage("Failed to fetch")]
    /\ lastReq' = [ form |-> inflight[i], outcome |-> "rejected", cause |-> "network",
                    newest |-> NewestResult(i,
                                  [ prediction |-> Null,
                                    error |-> [message |-> catchMessage("Failed to fetch")] ]) ]
    /\ loading' = FALSE
    /\ inflight' = RemoveAt(inflight, i)
    /\ UNCHANGED <<impl, formData, prediction, shown, cleared>>
    /\ UNCHANGED <<trainVars, diskVars, apiVars, utilVars, uiVars>>

reset ==
    /\ formData' = createDefaultForm
    /\ prediction' = Null
    /\ error' = Null
    /\ cleared' = TRUE
    /\ UNCHANGED <<impl, loading, inflight, lastReq, shown>>
    /\ UNCHANGED <<trainVars, diskVars, apiVars, utilVars, uiVars>>

-----------------------------------------------------------------------------
(* Training: pipeline_ml.py, train_model.py, train_model_olx.py            *)

MaxRuns == 2

Scripts == {"train_model", "train_model_olx"}

Negocios == {"Venda", "Aluguel"}

\* steps 2 and 4 of train_model.py: the rows of one business type
SaleRows(rs) == {r \in rs : r.tipo_negocio = "Venda"}

RentalRows(rs) == {r \in rs : r.tipo_negocio = "Aluguel"}

PreferOlx_AllSources(rs) == rs

\* "prioriza OLX se disponivel"
PreferOlx(rs) ==
    IF \E r \in rs : r.fonte = "olx" THEN {r \in rs : r.fonte = "olx"} ELSE rs

SegmentRows_SaleIsPrimary(rs) ==
    [ todas   |-> rs,
      fonte   |-> [f \in Fontes |-> {r \in rs : r.fonte = f}],
      negocio |-> [n \in Negocios |->
                     IF n = "Venda" THEN PreferOlx(SaleRows(rs))
                     ELSE {r \in rs : r.tipo_negocio = n}],
      combinado |-> [k \in {k \in Fontes \X Negocios :
                             \E r \in rs : r.fonte = k[1] /\ r.tipo_negocio = k[2]}
                      |-> {r \in rs : r.fonte = k[1] /\ r.tipo_negocio = k[2]}] ]

\* segmentos/dataset_*.csv: every listing, each source, each business type, and each
\* source x business type that has a row
SegmentRows(rs) ==
    [ todas   |-> rs,
      fonte   |-> [f \in Fontes |-> {r \in rs : r.fonte = f}],
      negocio |-> [n \in Negocios |-> {r \in rs : r.tipo_negocio = n}],
      combinado |-> [k \in {k \in Fontes \X Negocios :
                             \E r \in rs : r.fonte = k[1] /\ r.tipo_negocio = k[2]}
                      |-> {r \in rs : r.fonte = k[1] /\ r.tipo_negocio = k[2]}] ]

\* the rows train_model.py fits on: sales only, of OLX when OLX has any
TrainingRows(rs) == PreferOlx(SaleRows(rs))

\* the rows train_model_olx.py fits on: dataset_fonte_olx.csv as it is
TrainingRowsOlx(segs) == segs.fonte["olx"]

NenhumRegistroDeVenda_Ignored(training) == FALSE

\* "Nenhum registro de VENDA encontrado": the sale filter left nothing to fit on
NenhumRegistroDeVenda(training) == training = {}

\* "Dataset OLX nao encontrado": no segment file for the OLX source
DatasetOlxNaoEncontrado(segs) == segs = Null \/ (segs # Null /\ segs.fonte["olx"] = {})

Active(s) == pc[s] \in {"trained", "writing_model", "model_saved", "writing_preproc"}

Startable(s) == pc[s] \in {"idle", "done", "failed"} /\ runs < MaxRuns

Fitted(run, s, training) ==
    [ model |-> FitModel(run, s, training), preproc |-> FitPreprocessor(run, training) ]

\* pipeline_ml.py: regenerates the segmented datasets
pipeline_ml ==
    /\ segments' = SegmentRows(rows)
    /\ UNCHANGED <<rows, aluguelFile, pc, work, runs, prevPair, exported>>
    /\ UNCHANGED <<hookVars, diskVars, apiVars, utilVars, uiVars>>

\* train_model.py, steps 1 to 7: load, split sale from rental, save the rental
\* dataset, keep the sales, fit and evaluate
train_model ==
    /\ Startable("train_model")
    /\ runs' = runs + 1
    /\ aluguelFile' = [registros |-> RentalRows(rows)]
    /\ segments' = SegmentRows(rows)
    /\ prevPair' = [prevPair EXCEPT !["train_model"] = <<modelFile, preprocFile>>]
    /\ IF NenhumRegistroDeVenda(TrainingRows(rows))
       THEN \* the run stops with the diagnostic, nothing is exported
            /\ pc' = [pc EXCEPT !["train_model"] = "failed"]
            /\ work' = [work EXCEPT !["train_model"] = Null]
       ELSE /\ pc' = [pc EXCEPT !["train_model"] = "trained"]
            /\ work' = [work EXCEPT !["train_model"] =
                          Fitted(runs + 1, "train_model", TrainingRows(rows))]
    /\ UNCHANGED <<rows, exported>>
    /\ UNCHANGED <<hookVars, diskVars, apiVars, utilVars, uiVars>>

\* train_model_olx.py, steps 1 to 3: load dataset_fonte_olx.csv, recover the
\* categories, fit on the OLX rows
train_model_olx ==
    /\ Startable("train_model_olx")
    /\ runs' = runs + 1
    /\ prevPair' = [prevPair EXCEPT !["train_model_olx"] = <<modelFile, preprocFile>>]
    /\ IF DatasetOlxNaoEncontrado(segments)
       THEN \* the run stops with the diagnostic, nothing is exported
            /\ pc' = [pc EXCEPT !["train_model_olx"] = "failed"]
            /\ work' = [work EXCEPT !["train_model_olx"] = Null]
       ELSE /\ pc' = [pc EXCEPT !["train_model_olx"] = "trained"]
            /\ work' = [work EXCEPT !["train_model_olx"] =
                          Fitted(runs + 1, "train_model_olx", TrainingRowsOlx(segments))]
    /\ UNCHANGED <<rows, segments, aluguelFile, exported>>
    /\ UNCHANGED <<hookVars, diskVars, apiVars, utilVars, uiVars>>

\* "Salva o modelo em ml/artifacts/modelo_definitivo.joblib": the file is opened
\* for writing at its fixed path ...
BeginSaveModel(s) ==
    /\ pc[s] = "trained"
    /\ modelFile' = Partial
    /\ pc' = [pc EXCEPT ![s] = "writing_model"]
    /\ UNCHANGED <<rows, segments, aluguelFile, work, runs, prevPair, exported>>
    /\ UNCHANGED <<hookVars, preprocFile, apiVars, utilVars, uiVars>>

\* ... and holds the new model once the write has finished
EndSaveModel(s) ==
    /\ pc[s] = "writing_model"
    /\ modelFile' = work[s].model
    /\ exported' = exported \cup {work[s].model}
    /\ pc' = [pc EXCEPT ![s] = IF s = "train_model" THEN "model_saved" ELSE "done"]
    /\ UNCHANGED <<rows, segments, aluguelFile, work, runs, prevPair>>
    /\ UNCHANGED <<hookVars, preprocFile, apiVars, utilVars, uiVars>>

\* "Salva o pre-processador em ml/artifacts/preprocessador.joblib" (train_model.py)
BeginSavePreprocessor(s) ==
    /\ pc[s] = "model_saved"
    /\ preprocFile' = Partial
    /\ pc' = [pc EXCEPT ![s] = "writing_preproc"]
    /\ UNCHANGED <<rows, segments, aluguelFile, work, runs, prevPair, exported>>
    /\ UNCHANGED <<hookVars, modelFile, apiVars, utilVars, uiVars>>

EndSavePreprocessor(s) ==
    /\ pc[s] = "writing_preproc"
    /\ preprocFile' = work[s].preproc
    /\ exported' = exported \cup {work[s].preproc}
    /\ pc' = [pc EXCEPT ![s] = "done"]
    /\ UNCHANGED <<rows, segments, aluguelFile, work, runs, prevPair>>
    /\ UNCHANGED <<hookVars, modelFile, apiVars, utilVars, uiVars>>

\* the script dies part-way (an exception, a full disk, a kill): nothing is undone
ScriptFails(s) ==
    /\ Active(s)
    /\ pc' = [pc EXCEPT ![s] = "failed"]
    /\ UNCHANGED <<rows, segments, aluguelFile, work, runs, prevPair, exported>>
    /\ UNCHANGED <<hookVars, diskVars, apiVars, utilVars, uiVars>>

-----------------------------------------------------------------------------
(* Inference service: requests                                             *)

Payload(area, bairro) ==
    [ area |-> Num(area * 100), quartos |-> Num(300), banheiros |-> Num(200),
      tipo |-> casa, bairro |-> bairro, cidade |-> Sp ]

\* queries sent to POST /predict
ApiQueries == { Payload(85, Sul), Payload(85, Les), Payload(-1, Sul) }

\* POST /predict: the artifacts are read at their paths once for the request
ApiPredict(p) ==
    /\ lastScore' = [ payload  |-> p,
                      model    |-> modelFile,
                      preproc  |-> preprocFile,
                      encoded  |-> IF IsArtifact(preprocFile)
                                   THEN Transform(preprocFile, p) ELSE Null,
                      status   |-> HealthStatus(modelFile, preprocFile),
                      response |-> predictService(p, modelFile, preprocFile) ]
    /\ UNCHANGED health
    /\ UNCHANGED <<hookVars, trainVars, diskVars, utilVars, uiVars>>

\* GET /health: degraded when the artifacts are not available
ApiHealth ==
    /\ health' = HealthStatus(modelFile, preprocFile)
    /\ UNCHANGED lastScore
    /\ UNCHANGED <<hookVars, trainVars, diskVars, utilVars, uiVars>>

InitTrainIdle(rs) ==
    /\ rows = rs
    /\ segments = Null
    /\ aluguelFile = Null
    /\ pc = [s \in Scripts |-> "idle"]
    /\ work = [s \in Scripts |-> Null]
    /\ runs = 0
    /\ prevPair = [s \in Scripts |-> <<Null, Null>>]
    /\ exported = {}
    /\ lastScore = Null
    /\ health = "unknown"
    /\ call = Null

\* the page as it mounts: FAQSection's Accordion (type="single" collapsible),
\* nothing open, the menu closed
InitPageIdle ==
    /\ accordion = [type |-> "single", collapsible |-> TRUE, value |-> Null]
    /\ lastClick = Null
    /\ mobileMenuOpen = FALSE

InitHookIdle ==
    /\ impl = "api"
    /\ formData = createDefaultForm
    /\ prediction = Null
    /\ loading = FALSE
    /\ error = Null
    /\ inflight = <<>>
    /\ lastReq = Null
    /\ shown = {}
    /\ cleared = FALSE

\* contents of enriched_economic.csv: both sources, one source only, OLX with
\* rentals only beside another source's sales, rentals only
Datasets ==
    { AllRows,
      {r \in AllRows : r.fonte = "olx"},
      {r \in AllRows : r.fonte # "olx"},
      {r \in AllRows : r.fonte = "olx" <=> r.tipo_negocio = "Aluguel"},
      RentalRows(AllRows) }

InitTrain ==
    /\ InitPageIdle
    /\ InitHookIdle
    /\ rows \in Datasets
    /\ InitTrainIdle(rows)
    /\ modelFile = Null
    /\ preprocFile = Null

NextTrain ==
    \/ pipeline_ml
    \/ train_model
    \/ train_model_olx
    \/ \E s \in Scripts : BeginSaveModel(s)
    \/ \E s \in Scripts : EndSaveModel(s)
    \/ BeginSavePreprocessor("train_model")
    \/ EndSavePreprocessor("train_model")
    \/ \E s \in Scripts : ScriptFails(s)
    \/ \E p \in ApiQueries : ApiPredict(p)
    \/ ApiHealth

SpecTrain == InitTrain /\ [][NextTrain]_vars

InitHook ==
    /\ InitPageIdle
    /\ impl \in {"api", "legacy"}
    /\ formData = createDefaultForm
    /\ prediction = Null
    /\ loading = FALSE
    /\ error = Null
    /\ inflight = <<>>
    /\ lastReq = Null
    /\ shown = {}
    /\ cleared = FALSE
    /\ InitTrainIdle(AllRows)
    \* the artifact directory: empty, or the pair train_model.py exports
    /\ \/ modelFile = Null /\ preprocFile = Null
       \/ /\ modelFile = Fitted(1, "train_model", TrainingRows(AllRows)).model
          /\ preprocFile = Fitted(1, "train_model", TrainingRows(AllRows)).preproc

NextHook ==
    \/ \E name \in Fields : \E value \in FieldInputs[name] : handleChange(name, value)
    \/ handleSubmit(1)
    \/ \E i \in 1..MaxInFlight : handleSubmitSettle(i, {})
    \/ \E i \in 1..MaxInFlight : handleSubmitNetworkError(i)
    \/ reset

SpecHook == InitHook /\ [][NextHook]_vars

\* a form the user has filled in
FilledForm ==
    [ area |-> <<"8", "5">>, quartos |-> <<"3">>, banheiros |-> <<"2">>,
      tipo |-> <<"C", "a", "s", "a">>, bairro |-> <<"s", "u", "l">>,
      cidade |-> <<"S", "P">> ]

\* the hook once the form is filled in, nothing submitted yet
InitFilled ==
    /\ InitPageIdle
    /\ impl \in {"api", "legacy"}
    /\ formData = FilledForm
    /\ prediction = Null
    /\ loading = FALSE
    /\ error = Null
    /\ inflight = <<>>
    /\ lastReq = Null
    /\ shown = {}
    /\ cleared = FALSE
    /\ InitTrainIdle(AllRows)
    /\ \/ modelFile = Null /\ preprocFile = Null
       \/ /\ modelFile = Fitted(1, "train_model", TrainingRows(AllRows)).model
          /\ preprocFile = Fitted(1, "train_model", TrainingRows(AllRows)).preproc

\* one request at a time, answered by the service or by something else
NextAlone ==
    \/ \E value \in FieldInputs.area : handleChange("area", value)
    \/ handleSubmit(1)
    \/ \E i \in 1..MaxInFlight : handleSubmitSettle(i, OtherResponses)
    \/ \E i \in 1..MaxInFlight : handleSubmitNetworkError(i)
    \/ reset

SpecAlone == InitFilled /\ [][NextAlone]_vars

\* handleSubmit called again while earlier requests are pending
NextRace ==
    \/ \E value \in FieldInputs.area : handleChange("area", value)
    \/ handleSubmit(MaxInFlight)
    \/ \E i \in 1..MaxInFlight : handleSubmitSettle(i, OtherResponses)
    \/ \E i \in 1..MaxInFlight : handleSubmitNetworkError(i)
    \/ reset

SpecRace == InitFilled /\ [][NextRace]_vars

-----------------------------------------------------------------------------
(* Claims about the prediction form                                        *)

\* the number a field's text denotes, as the user wrote it
QueryNumber(text) == parseFloat(text)

\* the conditions of the inference contract, on the query as submitted
ValidQuery(fd) ==
    /\ QueryNumber(fd.area).k = "num" /\ QueryNumber(fd.area).v > 0
    /\ IsCount(QueryNumber(fd.quartos))
    /\ IsCount(QueryNumber(fd.banheiros))
    /\ HasText(fd.tipo)
    /\ titleCase(fd.bairro) # <<>>
    /\ titleCase(fd.cidade) # <<>>

\* C1: a listing query is answered with a price only if area > 0, quartos and
\* banheiros are integers >= 0, tipo is present and bairro and cidade are
\* non-empty after normalization; a query failing one of these never ends in a
\* prediction.
C1_PredictionOnlyForValidQuery ==
    (lastReq # Null /\ lastReq.outcome = "responded") => ValidQuery(lastReq.form)

\* C10: the error shown after a failed request differs between a bad request and
\* model unavailable, and no price is shown in place of an error.
C10_ErrorDistinguishesCause ==
    /\ \A a \in shown : \A b \in shown :
          ( /\ a[1] \in {"bad_request", "model_unavailable"}
            /\ b[1] \in {"bad_request", "model_unavailable"}
            /\ a[1] # b[1] ) => a[2] # b[2]
    /\ (lastReq # Null /\ lastReq.outcome = "rejected") => prediction = Null


-----------------------------------------------------------------------------
(* Training and serving claims (SpecTrain)                                 *)

HasRental(rs) == \E r \in rs : r.tipo_negocio = "Aluguel"

\* the rental listings sit in a dataset of their own
RentalSeparated ==
    \/ aluguelFile # Null /\ aluguelFile.registros = RentalRows(rows)
    \/ segments # Null /\ segments.negocio["Aluguel"] = RentalRows(rows)

\* C2: whichever script trained it, the sale-price model was fitted on no rental
\* row, and the rental rows are in a dataset of their own.
C2_NoRentalInSaleTraining ==
    \A s \in Scripts :
        work[s] # Null => (~HasRental(work[s].model.trainedOn) /\ RentalSeparated)

\* the preprocessor is the one fitted, in the same run, on the rows the model was
\* trained on
TrainedTogether(m, pp) ==
    /\ IsArtifact(m)
    /\ IsArtifact(pp)
    /\ pp = FitPreprocessor(m.run, m.trainedOn)

Priced(response) == "preco_estimado" \in DOMAIN response.json

\* C3: a valid query that meets a missing or mismatched artifact pair is rejected
\* as "model unavailable" with degraded status, and gets no price.
C3_UnpairedArtifactsRejected ==
    ( /\ lastScore # Null
      /\ ValidPayload(lastScore.payload)
      /\ ~TrainedTogether(lastScore.model, lastScore.preproc) )
    => ( /\ lastScore.response.status = 503
         /\ lastScore.response.json = [detail |-> "Modelo indisponivel"]
         /\ lastScore.status = "degraded"
         /\ ~Priced(lastScore.response) )

C3_MismatchedPairMet ==
    /\ lastScore # Null
    /\ ValidPayload(lastScore.payload)
    /\ IsArtifact(lastScore.model)
    /\ IsArtifact(lastScore.preproc)
    /\ ~TrainedTogether(lastScore.model, lastScore.preproc)
    /\ lastScore.response.status = 503

\* C4: no request reads one artifact of one export and the other artifact of
\* another export.
C4_RequestSeesWholePair ==
    lastScore # Null =>
        ~( /\ IsArtifact(lastScore.model)
           /\ IsArtifact(lastScore.preproc)
           /\ lastScore.model.run # lastScore.preproc.run )

\* C5: every artifact an earlier run exported is still on disk as it was exported.
C5_ExportedVersionsRetained ==
    \A a \in exported : a = modelFile \/ a = preprocFile

\* C6: after a run has failed part-way, no other run taking part, the served
\* paths still hold the pair they held when that run began.
C6_PointerMovesOnlyAfterSuccess ==
    \A s \in Scripts :
        ( /\ pc[s] = "failed"
          /\ \A t \in Scripts \ {s} : pc[t] = "idle" )
        => <<modelFile, preprocFile>> = prevPair[s]

\* C7: modelo_definitivo.joblib is being written by at most one run at a time.
C7_OneExportPerSlot ==
    Cardinality({s \in Scripts : pc[s] = "writing_model"}) <= 1

\* C8: every listing is in exactly one of the sale and rental segments, and in the
\* segment of its source.
C8_SegmentationCompleteAndExclusive ==
    segments # Null =>
        \A r \in rows :
            /\ r \in segments.todas
            /\ (r \in segments.negocio["Venda"]) # (r \in segments.negocio["Aluguel"])
            /\ r \in segments.fonte[r.fonte]

C8_BothTypesSegmented ==
    /\ segments # Null
    /\ rows = AllRows
    /\ segments.negocio["Venda"] # {}
    /\ segments.negocio["Aluguel"] # {}

UnknownBairro(ls) ==
    /\ ls # Null
    /\ ValidPayload(ls.payload)
    /\ TrainedTogether(ls.model, ls.preproc)
    /\ ls.payload.bairro \notin ls.preproc.vocab.bairro

\* C9: a valid query whose neighbourhood is outside the frozen vocabulary is
\* encoded as the all-zero row, leaves the vocabulary as it was, and is priced.
C9_UnknownCategoryStillPriced ==
    UnknownBairro(lastScore) =>
        /\ lastScore.response.status = 200
        /\ Priced(lastScore.response)
        /\ \A c \in DOMAIN lastScore.encoded.bairro : lastScore.encoded.bairro[c] = 0
        /\ lastScore.encoded.vocab = lastScore.preproc.vocab
        /\ DOMAIN lastScore.encoded.bairro = lastScore.preproc.vocab.bairro

C9_UnknownBairroPriced ==
    /\ UnknownBairro(lastScore)
    /\ lastScore.preproc.vocab.bairro # {}
    /\ lastScore.response.status = 200

-----------------------------------------------------------------------------
(* The frontend's pure functions, applied to enumerated inputs             *)

MaxTextLen == 5

TextChars == {"d", "e", "E", "s", " "}

\* what may be typed into bairro or cidade
Texts == UNION { [1..n -> TextChars] : n \in 0..MaxTextLen }

\* what may be typed into area, quartos or banheiros
\* twenty-two digits: 1e21, the first Number that ToString writes with an exponent
Sextillion == <<"1">> \o [i \in 1..21 |-> "0"]

NumberTexts ==
    { <<>>, <<"s">>, <<"0">>, <<"3">>, <<"-", "1">>, <<"8", ".", "5">>, Sextillion }

Forms ==
    [ area : NumberTexts, quartos : NumberTexts, banheiros : NumberTexts,
      tipo : FieldInputs.tipo, bairro : FieldInputs.bairro, cidade : FieldInputs.cidade ]

\* import.meta.env.VITE_API_URL: not defined, or a string
EnvValues ==
    { [defined |-> FALSE, value |-> <<>>],
      [defined |-> TRUE,  value |-> <<>>],
      [defined |-> TRUE,  value |-> <<"https://api.example">>],
      [defined |-> TRUE,  value |-> <<"https://api.example", "/">>] }

DEFAULT_BASE_URL == <<"http://localhost:8000">>

\* .replace(/\/$/, '')
replaceTrailingSlash(str) ==
    IF str # <<>> /\ str[Len(str)] = "/" THEN SubSeq(str, 1, Len(str) - 1) ELSE str

\* import.meta.env.VITE_API_URL?.replace(/\/$/, '') || DEFAULT_BASE_URL
API_BASE_URL(env) ==
    IF env.defined /\ replaceTrailingSlash(env.value) # <<>>
    THEN replaceTrailingSlash(env.value)
    ELSE DEFAULT_BASE_URL

\* `${API_BASE_URL}${path.startsWith('/') ? path : `/${path}`}`
apiFetchUrl(env, path) ==
    API_BASE_URL(env) \o (IF path # <<>> /\ Head(path) = "/" THEN path ELSE <<"/">> \o path)

\* the paths apiFetch is called with for a prediction
PredictPaths == { <<"/", "predict">>, <<"predict">> }

\* fetch('http://localhost:8000/predict', ...) of the legacy handleSubmit
legacyUrl == <<"http://localhost:8000", "/", "predict">>

requestUrl(env, path) == IF impl = "api" THEN apiFetchUrl(env, path) ELSE legacyUrl

\* each behaviour applies one function to one input
CallNormalizePredictionPayload(fd) ==
    /\ call = Null
    /\ call' = [ fn     |-> "normalizePredictionPayload",
                 arg    |-> fd,
                 result |-> normalizePredictionPayload(fd) ]
    /\ UNCHANGED <<hookVars, trainVars, diskVars, apiVars, uiVars>>

CallTitleCase(value) ==
    /\ call = Null
    /\ call' = [fn |-> "titleCase", arg |-> value, result |-> titleCase(value)]
    /\ UNCHANGED <<hookVars, trainVars, diskVars, apiVars, uiVars>>

CallRequestUrl(env, path) ==
    /\ call = Null
    /\ call' = [ fn     |-> "requestUrl",
                 arg    |-> [env |-> env, path |-> path],
                 result |-> requestUrl(env, path) ]
    /\ UNCHANGED <<hookVars, trainVars, diskVars, apiVars, uiVars>>

\* { ...a, ...b }: every key of a and of b, b's value where both have the key
Spread(a, b) ==
    [k \in DOMAIN a \cup DOMAIN b |-> IF k \in DOMAIN b THEN b[k] ELSE a[k]]

\* options.headers || {}
optionsHeaders(options) ==
    IF "headers" \in DOMAIN options THEN options.headers ELSE <<>>

\* apiFetch: const config = { headers: { 'Content-Type': 'application/json',
\*                                      ...(options.headers || {}) }, ...options }
apiFetchConfig(options) ==
    Spread([headers |-> Spread("Content-Type" :> "application/json",
                               optionsHeaders(options))],
           options)

\* the options apiFetch is called with: none, predictImovel's, and callers
\* that pass headers of their own
ApiFetchOptions ==
    { <<>>,
      [method |-> "POST", body |-> "payload"],
      [method |-> "POST", body |-> "payload", headers |-> <<>>],
      [method |-> "GET", headers |-> [Authorization |-> "Bearer t"]],
      [method |-> "POST", body |-> "text",
       headers |-> "Content-Type" :> "text/plain"],
      [method |-> "POST", body |-> "text",
       headers |-> ("Content-Type" :> "text/plain") @@ [Authorization |-> "Bearer t"]] }

CallApiFetch(options) ==
    /\ call = Null
    /\ call' = [fn |-> "apiFetch", arg |-> options, result |-> apiFetchConfig(options)]
    /\ UNCHANGED <<hookVars, trainVars, diskVars, apiVars, uiVars>>

InitUtils ==
    /\ InitPageIdle
    /\ impl \in {"api", "legacy"}
    /\ formData = createDefaultForm
    /\ prediction = Null
    /\ loading = FALSE
    /\ error = Null
    /\ inflight = <<>>
    /\ lastReq = Null
    /\ shown = {}
    /\ cleared = FALSE
    /\ InitTrainIdle(AllRows)
    /\ modelFile = Null
    /\ preprocFile = Null

NextUtils ==
    \/ \E fd \in Forms : CallNormalizePredictionPayload(fd)
    \/ \E value \in Texts : CallTitleCase(value)
    \/ \E env \in EnvValues : \E path \in PredictPaths : CallRequestUrl(env, path)
    \/ \E options \in ApiFetchOptions : CallApiFetch(options)

SpecUtils == InitUtils /\ [][NextUtils]_vars

-----------------------------------------------------------------------------
(* Claims about the pure functions (SpecUtils)                             *)

NumericFields == {"area", "quartos", "banheiros"}

NormalizeApplied == call # Null /\ call.fn = "normalizePredictionPayload"

\* the text of the field is not a number
NotANumber(text) == ~isFinite(parseFloat(text))

\* C11: a query whose area, quartos or banheiros is missing or not a number is
\* rejected with a reason by normalization; no such field comes out as zero.
C11_NoSilentZeroCoercion ==
    NormalizeApplied =>
        \A f \in NumericFields :
            NotANumber(call.arg[f]) =>
                ("reason" \in DOMAIN call.result /\ call.result[f] # Num(0))

TitleCaseApplied == call # Null /\ call.fn = "titleCase"

\* the words of a text: its maximal runs of characters other than the space
WordStarts(s) == {i \in 1..Len(s) : s[i] # " " /\ (i = 1 \/ s[i - 1] = " ")}

WordCount(s) == Cardinality(WordStarts(s))

WordAt(s, n) ==
    LET i == CHOOSE a \in WordStarts(s) :
                 Cardinality({b \in WordStarts(s) : b < a}) = n - 1
        j == CHOOSE e \in i..Len(s) :
                 /\ \A k \in i..e : s[k] # " "
                 /\ (e = Len(s) \/ s[e + 1] = " ")
    IN  SubSeq(s, i, j)

LowerWord(w) == [i \in 1..Len(w) |-> toLowerCaseChar(w[i])]

Capitalized(w) == [i \in 1..Len(w) |->
                     IF i = 1 THEN toUpperCaseChar(toLowerCaseChar(w[i]))
                     ELSE toLowerCaseChar(w[i])]

IsConnective(w) == LowerWord(w) \in TITLE_CASE_EXCEPTIONS

\* C12 (as stated): every word comes out capitalized, except that a connective
\* (do, da, dos, das, de) comes out in lower case at every position.
C12_ConnectiveLowerEverywhere ==
    TitleCaseApplied =>
        /\ WordCount(call.result) = WordCount(call.arg)
        /\ \A n \in 1..WordCount(call.arg) :
              WordAt(call.result, n) =
                  IF IsConnective(WordAt(call.arg, n))
                  THEN LowerWord(WordAt(call.arg, n))
                  ELSE Capitalized(WordAt(call.arg, n))

\* C12 (amended): every word comes out capitalized, except that a connective
\* that is not the first word comes out in lower case; a connective that opens
\* the text is capitalized like any other word.
C12_ConnectiveLowerAfterFirstWord ==
    TitleCaseApplied =>
        /\ WordCount(call.result) = WordCount(call.arg)
        /\ \A n \in 1..WordCount(call.arg) :
              WordAt(call.result, n) =
                  IF n # 1 /\ IsConnective(WordAt(call.arg, n))
                  THEN LowerWord(WordAt(call.arg, n))
                  ELSE Capitalized(WordAt(call.arg, n))

C12_ConnectiveFirstAndLater ==
    /\ TitleCaseApplied
    /\ WordCount(call.arg) = 2
    /\ IsConnective(WordAt(call.arg, 1))
    /\ IsConnective(WordAt(call.arg, 2))
    /\ call.result = <<"D", "e", " ", "d", "e">>

UpperText(s) == [i \in 1..Len(s) |-> toUpperCaseChar(s[i])]

TabForSpace(s) == [i \in 1..Len(s) |-> IF s[i] = " " THEN "\t" ELSE s[i]]

PadSpaces(s) == <<" ">> \o s \o <<" ", " ">>

RECURSIVE DoubleSpaces(_)
DoubleSpaces(s) ==
    IF s = <<>> THEN <<>>
    ELSE (IF Head(s) = " " THEN <<" ", " ">> ELSE <<Head(s)>>) \o DoubleSpaces(Tail(s))

\* texts that differ from s only in letter case, or only in the amount or the
\* kind of white space between and around the words
SameUpToCaseAndSpace(s) ==
    { UpperText(s), toLowerCase(s), PadSpaces(s), DoubleSpaces(s), TabForSpace(s) }

\* C13: texts that differ only in letter case or only in white space normalize
\* to the same string.
C13_CaseAndWhitespaceInsensitive ==
    TitleCaseApplied =>
        \A v \in SameUpToCaseAndSpace(call.arg) : titleCase(v) = call.result

-----------------------------------------------------------------------------
(* Claims about the hook's requests (SpecAlone, SpecRace)                  *)

Responded == prediction # Null /\ error = Null

Rejected == error # Null /\ prediction = Null

\* C14: when the only request in flight settles, the hook is left responded or
\* rejected, with loading false, whatever the response was.
C14_SettledRequestHasOneOutcome ==
    [][ (Len(inflight) = 1 /\ inflight' = <<>>)
        => (loading' = FALSE /\ (Responded' \/ Rejected')) ]_vars

-----------------------------------------------------------------------------
(* Further training claims (SpecTrain)                                     *)

StoppedAtStart(s) == pc[s] = "failed" /\ work[s] = Null

OlxEligible == \E r \in SaleRows(rows) : r.fonte = "olx"

-----------------------------------------------------------------------------
(* The request URL (SpecUtils)                                             *)

UrlApplied == call # Null /\ call.fn = "requestUrl"

\* the base named by VITE_API_URL, without its trailing slash if it has one
NamedBase(env) ==
    IF env.value # <<>> /\ env.value[Len(env.value)] = "/"
    THEN SubSeq(env.value, 1, Len(env.value) - 1)
    ELSE env.value

\* VITE_API_URL names a backend (an empty value counts as not set)
Configured(env) == env.defined /\ env.value # <<>>

\* C17: the prediction request goes to the base named by VITE_API_URL followed
\* by one "/" and "predict"; http://localhost:8000 is used only when
\* VITE_API_URL is not set.
C17_RequestGoesToConfiguredBackend ==
    UrlApplied =>
        IF Configured(call.arg.env)
        THEN call.result = NamedBase(call.arg.env) \o <<"/", "predict">>
        ELSE call.result = DEFAULT_BASE_URL \o <<"/", "predict">>

-----------------------------------------------------------------------------
(* Overlapping requests and reset (SpecRace, SpecAlone)                    *)

\* C18: prediction and error are never both non-null.
C18_PredictionAndErrorExclusive ==
    ~(prediction # Null /\ error # Null)

\* C19: while a request is in flight, loading is true.
C19_LoadingWhileInFlight ==
    inflight # <<>> => loading = TRUE

\* C20: from reset() until the next handleSubmit, prediction and error stay null.
C20_ResetStaysCleared ==
    cleared => (prediction = Null /\ error = Null)

\* C21: when overlapping requests have all settled, the prediction and the error
\* the hook holds are the ones the most recently submitted request ended with,
\* whatever the order the responses arrived in
C21_LatestSubmittedWins ==
    (inflight = <<>> /\ lastReq # Null /\ ~cleared)
        => /\ prediction = lastReq.newest.prediction
           /\ error = lastReq.newest.error

ApiFetchApplied == call # Null /\ call.fn = "apiFetch"

\* C22: every request apiFetch sends carries Content-Type: application/json
\* unless the caller's options.headers sets Content-Type itself; headers of other
\* names in options.headers leave the default in place
C22_JsonContentTypeByDefault ==
    ApiFetchApplied =>
        LET own  == optionsHeaders(call.arg)
            sent == call.result.headers
        IN  IF "Content-Type" \in DOMAIN own
            THEN /\ "Content-Type" \in DOMAIN sent
                 /\ sent["Content-Type"] = own["Content-Type"]
            ELSE /\ "Content-Type" \in DOMAIN sent
                 /\ sent["Content-Type"] = "application/json"

-----------------------------------------------------------------------------
(* The landing page's widgets: the FAQ Accordion and the header's mobile menu *)

\* const faqs = [ ... ]: six questions
FaqCount == 6

\* value={`item-${i}`} of AccordionItem, AccordionTrigger and AccordionContent
itemValue(i) == [item |-> i]

AccordionItems == {itemValue(i) : i \in 0..(FaqCount - 1)}

\* the type prop: "single", or anything else a caller passes
AccordionTypes == {"single", "multiple"}

nextValue_NeverCollapses(prev, newValue, collapsible) == newValue

nextValue_AlwaysCollapsible(prev, newValue, collapsible) ==
    IF prev = newValue THEN Null ELSE newValue

\* (prev) => (prev === newValue && collapsible ? null : newValue)
nextValue(prev, newValue, collapsible) ==
    IF prev = newValue /\ collapsible THEN Null ELSE newValue

\* AccordionTrigger, AccordionContent: const isOpen = value === itemValue
isOpen(v) == accordion.value = v

OpenItems == {v \in AccordionItems : isOpen(v)}

\* AccordionTrigger's onClick: onValueChange(itemValue)
onValueChange(newValue) ==
    /\ accordion' =
          IF accordion.type = "single"
          THEN [accordion EXCEPT
                  !.value = nextValue(accordion.value, newValue, accordion.collapsible)]
          ELSE accordion
    /\ lastClick' = [item |-> newValue, prev |-> accordion.value]
    /\ UNCHANGED mobileMenuOpen
    /\ UNCHANGED <<hookVars, trainVars, diskVars, apiVars, utilVars>>

toggleMenu ==
    /\ mobileMenuOpen' = ~mobileMenuOpen
    /\ UNCHANGED <<accordion, lastClick>>
    /\ UNCHANGED <<hookVars, trainVars, diskVars, apiVars, utilVars>>

closeMenu ==
    /\ mobileMenuOpen' = FALSE
    /\ UNCHANGED <<accordion, lastClick>>
    /\ UNCHANGED <<hookVars, trainVars, diskVars, apiVars, utilVars>>

\* the page with an Accordion of either type, collapsible or not
InitPage ==
    /\ InitHookIdle
    /\ InitTrainIdle(AllRows)
    /\ modelFile = Null
    /\ preprocFile = Null
    /\ accordion \in [type : AccordionTypes, collapsible : BOOLEAN, value : {Null}]
    /\ lastClick = Null
    /\ mobileMenuOpen = FALSE

NextPage ==
    \/ \E v \in AccordionItems : onValueChange(v)
    \/ toggleMenu
    \/ closeMenu

SpecPage == InitPage /\ [][NextPage]_vars

Single == accordion.type = "single"

Clicked == lastClick # Null

\* C23: in a single-type Accordion at most one item is open; clicking the trigger
\* of a closed item opens it and closes the one that was open; with collapsible
\* set, clicking the trigger of the open item closes it
C23_SingleOpenItem ==
    Single =>
        /\ Cardinality(OpenItems) <= 1
        /\ (Clicked /\ lastClick.prev # lastClick.item)
               => OpenItems = {lastClick.item}
        /\ (Clicked /\ lastClick.prev = lastClick.item /\ accordion.collapsible)
               => OpenItems = {}

\* an open item was replaced by another, in a collapsible single Accordion
C23_OpenItemReplaced ==
    /\ Single /\ accordion.collapsible /\ Clicked
    /\ lastClick.prev \in AccordionItems
    /\ lastClick.prev # lastClick.item
    /\ OpenItems = {lastClick.item}

NonCollapsible == Single /\ ~accordion.collapsible

\* C24: with collapsible = false in a single-type Accordion, once an item is open
\* some item is open ever after, clicking the open item's trigger leaves it open,
\* and no item open happens only before the first click; with another type no
\* click opens any item
C24_NonCollapsibleStaysOpen ==
    /\ [][(NonCollapsible /\ OpenItems # {}) => (OpenItems # {})']_vars
    /\ []((NonCollapsible /\ Clicked) => isOpen(lastClick.item))
    /\ []((NonCollapsible /\ OpenItems = {}) => ~Clicked)
    /\ [](~Single => OpenItems = {})

\* the open item's own trigger was clicked and the item is still open
C24_OpenItemClickedAgain ==
    /\ NonCollapsible /\ Clicked
    /\ lastClick.prev = lastClick.item
    /\ isOpen(lastClick.item)

\* the filled form with the service's artifacts exported, so that predictions
\* are displayed
InitEdit ==
    /\ InitFilled
    /\ modelFile # Null

\* every field edited, before, during and after a request
NextEdit ==
    \/ \E name \in Fields : \E value \in FieldInputs[name] : handleChange(name, value)
    \/ handleSubmit(1)
    \/ \E i \in 1..MaxInFlight : handleSubmitSettle(i, {})
    \/ reset

SpecEdit == InitEdit /\ [][NextEdit]_vars

\* C25: handleChange for a field changes that field of formData only: the other
\* fields, prediction, error and loading are as before, so a prediction on
\* display stays on display while the form is edited
C25_HandleChangeFrame ==
    [][ \A name \in Fields :
          (\E value \in FieldInputs[name] : handleChange(name, value))
              => /\ \A f \in Fields \ {name} : formData'[f] = formData[f]
                 /\ prediction' = prediction
                 /\ error' = error
                 /\ loading' = loading ]_vars

\* a prediction on display beside a form that no longer is the one submitted
C25_PredictionShownWithEditedForm ==
    /\ inflight = <<>> /\ ~cleared
    /\ lastReq # Null /\ lastReq.outcome = "responded"
    /\ prediction # Null
    /\ formData # lastReq.form

\* normalizePredictionPayload called with a payload: its numbers reach the
\* parsers as their ToString
asStrings(payload) ==
    [ area      |-> numberToString(payload.area),
      quartos   |-> numberToString(payload.quartos),
      banheiros |-> numberToString(payload.banheiros),
      tipo      |-> payload.tipo,
      bairro    |-> payload.bairro,
      cidade    |-> payload.cidade ]

PlainCounts(payload) == payload.quartos.k = "num" /\ payload.banheiros.k = "num"

====
